---- MODULE Spec2Model ----
(***************************************************************************)
(* Decision-to-execution pipeline of open-nof1.ai: the venue (Binance      *)
(* futures through ccxt) as the code uses it, the execution service        *)
(* (executeDecision and its four handlers), the order helpers              *)
(* (executeBuyOrder, executeSellOrder, closePosition,                      *)
(* setStopLossAndTakeProfit), the standalone buy()/sell() functions, the   *)
(* position risk ledger and the decision loop of run().                    *)
(*                                                                         *)
(* Numbers are integers.  A JavaScript value that may be absent is the     *)
(* integer Undefined; `x || y` and `if (x)` are modelled by Truthy.  The   *)
(* JavaScript division a / b is modelled at a resolution of one unit.      *)
(***************************************************************************)
EXTENDS Integers, Sequences, FiniteSets, TLC

VARIABLES pos, openPositions, lastOp, nOps, trip, cycle, database, fetches, dailyPnl, closing

vars == <<pos, openPositions, lastOp, nOps, trip, cycle, database, fetches, dailyPnl, closing>>

(***************************************************************************)
(* Bounds of the model.                                                    *)
(***************************************************************************)
MaxOps == 2
MaxDecisions == 2
MaxSymbols == 3

MaxPositions == 2

MaxRuns == 1

(***************************************************************************)
(* Values                                                                  *)
(***************************************************************************)
Undefined == -1

Truthy(x) == x # Undefined /\ x # 0

Abs(x) == IF x < 0 THEN -x ELSE x

Min(a, b) == IF a < b THEN a ELSE b

Quot(a, b) == a \div b

Symbols == {"BTC", "ETH"}

BinanceSymbol(coin) == coin \o "/USDT"

FuturesSymbol(coin) == coin \o "/USDT:USDT"

MarketOf(symbol) == CHOOSE c \in Symbols : symbol \in {BinanceSymbol(c), FuturesSymbol(c)}

InitialPositions == {0}

Prices == {30000}

Capitals == {90000}

Balances == {0, 1}

(***************************************************************************)
(* The venue.  A call is logged as a record; an order is a createOrder     *)
(* call.  A market order that the venue accepts fills fully at once; a     *)
(* reduce-only order can only shrink the position; limit and conditional   *)
(* orders rest without changing the position.                              *)
(***************************************************************************)
VenueCall(name, symbol, ok) ==
  [call |-> name, symbol |-> symbol, type |-> "", side |-> "", amount |-> Undefined,
   price |-> Undefined, reduceOnly |-> FALSE, stopPrice |-> Undefined,
   value |-> Undefined, ok |-> ok]

LeverageCall(name, symbol, leverage, ok) ==
  [VenueCall(name, symbol, ok) EXCEPT !.value = leverage]

OrderCall(symbol, type, side, amount, price, reduceOnly, stopPrice, ok) ==
  [call |-> "createOrder", symbol |-> symbol, type |-> type, side |-> side,
   amount |-> amount, price |-> price, reduceOnly |-> reduceOnly,
   stopPrice |-> stopPrice, value |-> Undefined, ok |-> ok]

IsBuySide(side) == side \in {"buy", "BUY"}

IsMarket(type) == type \in {"market", "MARKET"}

Reduces(p, side) == (p > 0 /\ ~IsBuySide(side)) \/ (p < 0 /\ IsBuySide(side))

OrderAccepted(p, type, side, amount, reduceOnly, rejected) ==
  /\ ~rejected
  /\ amount > 0
  /\ (reduceOnly /\ IsMarket(type)) => Reduces(p, side)

Filled(p, type, side, amount, reduceOnly) ==
  IF ~IsMarket(type) THEN p
  ELSE IF reduceOnly
       THEN (IF IsBuySide(side) THEN p + Min(amount, Abs(p)) ELSE p - Min(amount, Abs(p)))
       ELSE (IF IsBuySide(side) THEN p + amount ELSE p - amount)

(***************************************************************************)
(* Position risk ledger (RiskManager.openPositions).                       *)
(***************************************************************************)
calculatePositionRisk(symbol, entryPrice, currentPrice, quantity, leverage, stopLoss, portfolioValue) ==
  LET unrealizedPnl == (currentPrice - entryPrice) * quantity * leverage
      riskUsd == IF Truthy(stopLoss) THEN Abs(entryPrice - stopLoss) * quantity * leverage ELSE 0
      riskPercentage == IF portfolioValue = 0 THEN Undefined
                        ELSE Quot(riskUsd * 1000, portfolioValue)
  IN  [symbol |-> symbol, entryPrice |-> entryPrice, currentPrice |-> currentPrice,
       quantity |-> quantity, leverage |-> leverage, stopLoss |-> stopLoss,
       unrealizedPnl |-> unrealizedPnl, riskUsd |-> riskUsd,
       riskPercentage |-> riskPercentage]

(* The RiskManager's parameters; ratios are in thousandths, as             *)
(* riskPercentage is.                                                      *)
maxDailyLoss == 1000000

maxTotalRisk == 1000

(* A sum with a NaN term is NaN.                                           *)
RECURSIVE calculateTotalRisk(_)
calculateTotalRisk(ledger) ==
  IF ledger = <<>> THEN 0
  ELSE LET rest == calculateTotalRisk(Tail(ledger))
       IN  IF Head(ledger).riskPercentage = Undefined \/ rest = Undefined THEN Undefined
           ELSE Head(ledger).riskPercentage + rest

MathMin(a, b) == IF a = Undefined \/ b = Undefined THEN Undefined ELSE IF a < b THEN a ELSE b

shouldHaltTrading(pnl, ledger) == FALSE

getRiskMetrics(ledger) ==
  LET totalRisk == calculateTotalRisk(ledger)
      dailyLoss == IF dailyPnl < -maxDailyLoss THEN 400 ELSE 0
      totalRiskBreach == IF totalRisk # Undefined /\ totalRisk > maxTotalRisk THEN 300 ELSE 0
      manyPositions == IF Len(ledger) > 5 THEN 200 ELSE 0
      share == MathMin(IF totalRisk = Undefined THEN Undefined ELSE totalRisk * 2, 100)
      riskScore == IF share = Undefined THEN Undefined
                   ELSE dailyLoss + totalRiskBreach + manyPositions + share
  IN  [totalPositions |-> Len(ledger), totalRisk |-> totalRisk, dailyPnl |-> dailyPnl,
       riskScore |-> MathMin(riskScore, 1000)]

AlwaysPush(ledger, position) == Append(ledger, position)

addOrUpdatePosition(ledger, position) ==
  LET found == {i \in 1..Len(ledger) : ledger[i].symbol = position.symbol}
  IN  IF found # {}
      THEN LET existingIndex == CHOOSE i \in found : \A j \in found : i <= j
           IN  [ledger EXCEPT ![existingIndex] = position]
      ELSE Append(ledger, position)

KeepPosition(ledger, symbol) == ledger

removePosition(ledger, symbol) == SelectSeq(ledger, LAMBDA p : p.symbol # symbol)

Tracked(ledger, symbol) == \E i \in 1..Len(ledger) : ledger[i].symbol = symbol

(***************************************************************************)
(* What the venue answers during one call of a handler: which of its calls *)
(* it rejects, the ticker price, the coin balance (free + used) it reports *)
(* and the symbol format under which it lists positions.                   *)
(***************************************************************************)
DefaultEnv ==
  [tickerFail |-> FALSE, price |-> CHOOSE x \in Prices : TRUE, leverageRejected |-> FALSE,
   marginRejected |-> FALSE, positionsFail |-> FALSE, futuresFormat |-> FALSE,
   balanceFail |-> FALSE, balance |-> 0, orderRejected |-> FALSE,
   stopRejected |-> FALSE, profitRejected |-> FALSE]

VenueError == "venue error"

NoResult == [success |-> FALSE, error |-> "", price |-> Undefined, executedQuantity |-> Undefined]

(***************************************************************************)
(* Order helpers of the execution service.  Each yields the venue          *)
(* positions after the call, the venue calls it made and its result.       *)
(***************************************************************************)
RetryingBuyOrder(p, symbol, quantity, leverageParam, env) ==
  LET binanceSymbol == BinanceSymbol(symbol)
      ok == OrderAccepted(p[symbol], "MARKET", "BUY", quantity, FALSE, env.orderRejected)
      order == OrderCall(binanceSymbol, "MARKET", "BUY", quantity, Undefined, FALSE, Undefined, ok)
  IN  [pos |-> IF ok THEN [p EXCEPT ![symbol] = Filled(p[symbol], "MARKET", "BUY", quantity, FALSE)]
               ELSE p,
       calls |-> IF ok THEN <<order>> ELSE <<order, order>>,
       result |-> IF ok
                  THEN [success |-> TRUE, error |-> "", price |-> env.price,
                        executedQuantity |-> quantity]
                  ELSE [NoResult EXCEPT !.error = VenueError]]

executeBuyOrder(p, symbol, quantity, leverageParam, env) ==
  LET leverage == IF leverageParam = Undefined THEN 1 ELSE leverageParam
      binanceSymbol == BinanceSymbol(symbol)
      levCalls == IF leverage > 1
                  THEN <<LeverageCall("fapiPrivatePostLeverage", binanceSymbol, leverage,
                                      ~env.leverageRejected)>>
                  ELSE <<>>
      ok == OrderAccepted(p[symbol], "MARKET", "BUY", quantity, FALSE, env.orderRejected)
      order == OrderCall(binanceSymbol, "MARKET", "BUY", quantity, Undefined, FALSE, Undefined, ok)
  IN  [pos |-> IF ok THEN [p EXCEPT ![symbol] = Filled(p[symbol], "MARKET", "BUY", quantity, FALSE)]
               ELSE p,
       calls |-> levCalls \o <<order>>,
       result |-> IF ok
                  THEN [success |-> TRUE, error |-> "", price |-> env.price,
                        executedQuantity |-> quantity]
                  ELSE [NoResult EXCEPT !.error = VenueError]]

executeSellOrder(p, symbol, quantity, env) ==
  LET binanceSymbol == BinanceSymbol(symbol)
      ok == OrderAccepted(p[symbol], "MARKET", "SELL", quantity, FALSE, env.orderRejected)
      order == OrderCall(binanceSymbol, "MARKET", "SELL", quantity, Undefined, FALSE, Undefined, ok)
  IN  IF ~Truthy(quantity) \/ quantity <= 0
      THEN [pos |-> p, calls |-> <<>>,
            result |-> [NoResult EXCEPT !.error = "Invalid sell quantity"]]
      ELSE [pos |-> IF ok THEN [p EXCEPT ![symbol] = Filled(p[symbol], "MARKET", "SELL", quantity, FALSE)]
                    ELSE p,
            calls |-> <<order>>,
            result |-> IF ok
                       THEN [success |-> TRUE, error |-> "", price |-> env.price,
                             executedQuantity |-> quantity]
                       ELSE [NoResult EXCEPT !.error = VenueError]]

closePosition(p, symbol, env) ==
  LET binanceSymbol == BinanceSymbol(symbol)
      futuresSymbol == FuturesSymbol(symbol)
      listed == IF env.futuresFormat THEN futuresSymbol ELSE binanceSymbol
      fetchPositions == VenueCall("fetchPositions", "", ~env.positionsFail)
      found == ~env.positionsFail /\ listed \in {binanceSymbol, futuresSymbol} /\ p[symbol] # 0
      fetchBalance == VenueCall("fetchBalance", "", ~env.balanceFail)
      totalBalance == env.balance
      spotOk == OrderAccepted(p[symbol], "market", "sell", totalBalance, FALSE, env.orderRejected)
      spotOrder == OrderCall(binanceSymbol, "market", "sell", totalBalance, Undefined, FALSE,
                             Undefined, spotOk)
      contracts == p[symbol]
      isLongPosition == contracts > 0
      closeQuantity == Abs(contracts)
      orderSymbol == listed
      side == IF isLongPosition THEN "sell" ELSE "buy"
      ok == OrderAccepted(p[symbol], "market", side, closeQuantity, FALSE, env.orderRejected)
      order == OrderCall(orderSymbol, "market", side, closeQuantity, Undefined, FALSE, Undefined, ok)
  IN  IF ~found
      THEN IF env.balanceFail
           THEN [pos |-> p, calls |-> <<fetchPositions, fetchBalance>>,
                 result |-> [NoResult EXCEPT !.error = VenueError]]
           ELSE IF totalBalance <= 0
           THEN [pos |-> p, calls |-> <<fetchPositions, fetchBalance>>,
                 result |-> [NoResult EXCEPT !.error = "No position found for this symbol"]]
           ELSE [pos |-> IF spotOk
                         THEN [p EXCEPT ![symbol] = Filled(p[symbol], "market", "sell", totalBalance, FALSE)]
                         ELSE p,
                 calls |-> <<fetchPositions, fetchBalance, spotOrder>>,
                 result |-> IF spotOk
                            THEN [success |-> TRUE, error |-> "", price |-> env.price,
                                  executedQuantity |-> totalBalance]
                            ELSE [NoResult EXCEPT !.error = VenueError]]
      ELSE [pos |-> IF ok THEN [p EXCEPT ![symbol] = Filled(p[symbol], "market", side, closeQuantity, FALSE)]
                    ELSE p,
            calls |-> <<fetchPositions, order>>,
            result |-> IF ok
                       THEN [success |-> TRUE, error |-> "", price |-> env.price,
                             executedQuantity |-> closeQuantity]
                       ELSE [NoResult EXCEPT !.error = VenueError]]

setStopLossAndTakeProfit(p, symbol, stopLoss, takeProfit, env) ==
  LET fetchBalance == VenueCall("fetchBalance", "", ~env.balanceFail)
      totalBalance == env.balance
  IN  [pos |-> p, calls |-> <<fetchBalance>>,
       result |-> IF env.balanceFail THEN [NoResult EXCEPT !.error = VenueError]
                  ELSE IF totalBalance <= 0
                  THEN [NoResult EXCEPT !.error = "No position found for this symbol"]
                  ELSE [NoResult EXCEPT !.success = TRUE]]

(***************************************************************************)
(* TradingExecutionService.  A handler yields the venue positions and the  *)
(* ledger after the call, the venue calls made, the TradeExecutionResult,  *)
(* and the results of the entry order and of the stop-loss/take-profit     *)
(* step when it ran (a sequence of length 0 or 1).                         *)
(***************************************************************************)
BaseResult == [success |-> FALSE, error |-> "", execution |-> <<>>, warnings |-> <<>>]

NoExecution(orderResult, type) == <<>>

Execution(orderResult, type) ==
  <<[executedPrice |-> orderResult.price, executedQuantity |-> orderResult.executedQuantity,
     type |-> type]>>

fallbackPrices(symbol) == IF symbol = "BTC" THEN 45000 ELSE 2500

getCurrentPrice(symbol, env) == IF env.tickerFail THEN fallbackPrices(symbol) ELSE env.price

MarketDataCalls(symbol, env) ==
  <<[VenueCall("fetchTicker", BinanceSymbol(symbol), ~env.tickerFail) EXCEPT
       !.value = IF env.tickerFail THEN Undefined ELSE env.price],
    VenueCall("fetchOHLCV", BinanceSymbol(symbol), TRUE)>>

ProtectiveWarnings(stopLossResult, prefix) ==
  IF stopLossResult # <<>> /\ ~stopLossResult[1].result.success
  THEN <<prefix \o stopLossResult[1].result.error>>
  ELSE <<>>

executeBuyToEnter(p, ledger, decision, availableCapital, env) ==
  LET currentPrice == getCurrentPrice(decision.coin, env)
      finalQuantity == IF Truthy(decision.quantity) THEN decision.quantity
                       ELSE Quot(availableCapital, currentPrice)
      finalLeverage == decision.leverage
      buyResult == executeBuyOrder(p, decision.coin, finalQuantity, finalLeverage, env)
      stopLossResult == IF Truthy(decision.stop_loss) \/ Truthy(decision.profit_target)
                        THEN <<setStopLossAndTakeProfit(buyResult.pos, decision.coin,
                                                        decision.stop_loss, decision.profit_target, env)>>
                        ELSE <<>>
      entryPrice == IF Truthy(buyResult.result.price) THEN buyResult.result.price ELSE currentPrice
      newPosition == calculatePositionRisk(decision.coin, entryPrice, entryPrice, finalQuantity,
                                           finalLeverage, decision.stop_loss, availableCapital)
  IN  IF ~buyResult.result.success
      THEN [pos |-> buyResult.pos, ledger |-> ledger,
            calls |-> MarketDataCalls(decision.coin, env) \o buyResult.calls,
            result |-> [BaseResult EXCEPT !.error = "Buy order failed: " \o buyResult.result.error],
            entry |-> <<buyResult.result>>, protective |-> <<>>]
      ELSE [pos |-> buyResult.pos, ledger |-> addOrUpdatePosition(ledger, newPosition),
            calls |-> MarketDataCalls(decision.coin, env) \o buyResult.calls
                      \o (IF stopLossResult = <<>> THEN <<>> ELSE stopLossResult[1].calls),
            result |-> [BaseResult EXCEPT
                          !.success = TRUE,
                          !.execution = Execution(buyResult.result, "BUY_TO_ENTER"),
                          !.warnings = ProtectiveWarnings(stopLossResult,
                                          "Failed to set stop loss/take profit: ")],
            entry |-> <<buyResult.result>>,
            protective |-> IF stopLossResult = <<>> THEN <<>> ELSE <<stopLossResult[1].result>>]

executeSellToEnter(p, ledger, decision, availableCapital, env) ==
  LET currentPrice == getCurrentPrice(decision.coin, env)
      finalQuantity == IF Truthy(decision.quantity) THEN decision.quantity
                       ELSE Quot(availableCapital, currentPrice)
      finalLeverage == decision.leverage
      sellResult == executeSellOrder(p, decision.coin, finalQuantity, env)
      stopLossResult == IF Truthy(decision.stop_loss) \/ Truthy(decision.profit_target)
                        THEN <<setStopLossAndTakeProfit(sellResult.pos, decision.coin,
                                                        decision.stop_loss, decision.profit_target, env)>>
                        ELSE <<>>
      entryPrice == IF Truthy(sellResult.result.price) THEN sellResult.result.price ELSE currentPrice
      newPosition == calculatePositionRisk(decision.coin, entryPrice, entryPrice, -finalQuantity,
                                           finalLeverage, decision.stop_loss, availableCapital)
  IN  IF ~sellResult.result.success
      THEN [pos |-> sellResult.pos, ledger |-> ledger,
            calls |-> MarketDataCalls(decision.coin, env) \o sellResult.calls,
            result |-> [BaseResult EXCEPT !.error = "Short sell failed: " \o sellResult.result.error],
            entry |-> <<sellResult.result>>, protective |-> <<>>]
      ELSE [pos |-> sellResult.pos, ledger |-> addOrUpdatePosition(ledger, newPosition),
            calls |-> MarketDataCalls(decision.coin, env) \o sellResult.calls
                      \o (IF stopLossResult = <<>> THEN <<>> ELSE stopLossResult[1].calls),
            result |-> [BaseResult EXCEPT
                          !.success = TRUE,
                          !.execution = Execution(sellResult.result, "SELL_TO_ENTER"),
                          !.warnings = ProtectiveWarnings(stopLossResult,
                                          "Failed to set stop loss/take profit: ")],
            entry |-> <<sellResult.result>>,
            protective |-> IF stopLossResult = <<>> THEN <<>> ELSE <<stopLossResult[1].result>>]

executeClose(p, ledger, decision, env) ==
  LET closeResult == closePosition(p, decision.coin, env)
  IN  IF ~closeResult.result.success
      THEN [pos |-> closeResult.pos, ledger |-> ledger, calls |-> closeResult.calls,
            result |-> [BaseResult EXCEPT
                          !.error = "Close position failed: " \o closeResult.result.error],
            entry |-> <<>>, protective |-> <<>>]
      ELSE [pos |-> closeResult.pos, ledger |-> removePosition(ledger, decision.coin),
            calls |-> closeResult.calls,
            result |-> [BaseResult EXCEPT !.success = TRUE,
                                          !.execution = Execution(closeResult.result, "CLOSE")],
            entry |-> <<>>, protective |-> <<>>]

HoldThatCloses(p, ledger, decision, env) == executeClose(p, ledger, decision, env)

executeHold(p, ledger, decision, env) ==
  LET stopLossResult == IF Truthy(decision.stop_loss) \/ Truthy(decision.profit_target)
                        THEN <<setStopLossAndTakeProfit(p, decision.coin, decision.stop_loss,
                                                        decision.profit_target, env)>>
                        ELSE <<>>
  IN  [pos |-> p, ledger |-> ledger,
       calls |-> IF stopLossResult = <<>> THEN <<>> ELSE stopLossResult[1].calls,
       result |-> [BaseResult EXCEPT
                     !.success = TRUE,
                     !.execution = <<[executedPrice |-> Undefined, executedQuantity |-> Undefined,
                                      type |-> "HOLD"]>>,
                     !.warnings = ProtectiveWarnings(stopLossResult,
                                     "Failed to update stop loss/take profit: ")],
       entry |-> <<>>,
       protective |-> IF stopLossResult = <<>> THEN <<>> ELSE <<stopLossResult[1].result>>]

executeDecision(p, ledger, decision, availableCapital, env) ==
  CASE decision.signal = "buy_to_enter" -> executeBuyToEnter(p, ledger, decision, availableCapital, env)
    [] decision.signal = "sell_to_enter" -> executeSellToEnter(p, ledger, decision, availableCapital, env)
    [] decision.signal = "close" -> executeClose(p, ledger, decision, env)
    [] decision.signal = "hold" -> executeHold(p, ledger, decision, env)
    [] OTHER -> [pos |-> p, ledger |-> ledger, calls |-> <<>>,
                 result |-> [BaseResult EXCEPT !.error = "Unknown signal type: " \o decision.signal],
                 entry |-> <<>>, protective |-> <<>>]

(***************************************************************************)
(* Inputs of the execution service.                                        *)
(***************************************************************************)
Quantities == {Undefined, 0, 2}

Leverages == {1, 3}

StopLosses == {Undefined, 29000}

ProfitTargets == {Undefined, 31000}

EnterDecisions ==
  [signal : {"buy_to_enter", "sell_to_enter"}, coin : Symbols, quantity : Quantities,
   leverage : Leverages, profit_target : ProfitTargets, stop_loss : StopLosses]

CloseDecisions ==
  [signal : {"close"}, coin : Symbols, quantity : {0}, leverage : {1},
   profit_target : {Undefined}, stop_loss : {Undefined}]

HoldDecisions ==
  [signal : {"hold"}, coin : Symbols, quantity : {0}, leverage : {1},
   profit_target : ProfitTargets, stop_loss : StopLosses]

(* A decision whose signal none of the cases of executeDecision matches.   *)
UnknownDecisions ==
  [signal : {"bogus"}, coin : Symbols, quantity : {0}, leverage : {1},
   profit_target : {Undefined}, stop_loss : {Undefined}]

Decisions == EnterDecisions \cup CloseDecisions \cup HoldDecisions \cup UnknownDecisions

BalanceAnswers == {<<FALSE, b>> : b \in Balances} \cup {<<TRUE, 0>>}

EnterEnvs(d) ==
  {[DefaultEnv EXCEPT !.tickerFail = t, !.price = pr, !.leverageRejected = l,
                      !.orderRejected = o, !.balanceFail = b[1], !.balance = b[2]] :
     t \in IF d.quantity = Undefined THEN BOOLEAN ELSE {FALSE}, pr \in Prices,
     l \in IF d.signal = "buy_to_enter" /\ d.leverage > 1 THEN BOOLEAN ELSE {FALSE},
     <<o, b>> \in {<<FALSE, x>> :
                     x \in IF Truthy(d.stop_loss) \/ Truthy(d.profit_target)
                           THEN BalanceAnswers ELSE {<<FALSE, 0>>}}
                  \cup {<<TRUE, <<FALSE, 0>>>>}}

CloseEnvs ==
  {[DefaultEnv EXCEPT !.positionsFail = f, !.futuresFormat = u, !.price = pr,
                      !.orderRejected = o, !.balanceFail = b[1], !.balance = b[2]] :
     f \in BOOLEAN, u \in BOOLEAN, pr \in Prices, o \in BOOLEAN, b \in BalanceAnswers}

HoldEnvs(d) ==
  {[DefaultEnv EXCEPT !.balanceFail = b[1], !.balance = b[2]] :
     b \in IF Truthy(d.stop_loss) \/ Truthy(d.profit_target) THEN BalanceAnswers
           ELSE {<<FALSE, 0>>}}

DecisionEnvs(d) ==
  CASE d.signal \in {"buy_to_enter", "sell_to_enter"} -> EnterEnvs(d)
    [] d.signal = "close" -> CloseEnvs
    [] d.signal = "hold" -> HoldEnvs(d)
    [] OTHER -> {DefaultEnv}

(***************************************************************************)
(* The standalone buy() and sell() functions.                              *)
(***************************************************************************)
SlashSymbols == {BinanceSymbol(c) : c \in Symbols} \cup {FuturesSymbol(c) : c \in Symbols}

normalizeSymbol(symbol) == IF symbol \in SlashSymbols THEN symbol ELSE symbol \o "/USDT"

(* Fractional leverages are counted in tenths: 15 stands for 1.5.          *)
Tenths == 10

MathFloor(tenths) == (tenths \div Tenths) * Tenths

ClampWithoutFloor(tenths) ==
  IF tenths < 1 * Tenths THEN 1 * Tenths
  ELSE IF tenths > 20 * Tenths THEN 20 * Tenths
  ELSE tenths

validateLeverageTenths(tenths) ==
  IF tenths < 1 * Tenths THEN 1 * Tenths
  ELSE IF tenths > 20 * Tenths THEN 20 * Tenths
  ELSE MathFloor(tenths)

sell_validateLeverageTenths(tenths) ==
  IF tenths < 1 * Tenths THEN 1 * Tenths
  ELSE IF tenths > 20 * Tenths THEN 20 * Tenths
  ELSE MathFloor(tenths)

(* The handlers pass whole leverages.                                      *)
validateLeverage(leverage) == validateLeverageTenths(leverage * Tenths) \div Tenths

sell_validateLeverage(leverage) == sell_validateLeverageTenths(leverage * Tenths) \div Tenths

OrDefault(x, default) == IF Truthy(x) THEN x ELSE default

AmountWithoutLeverage(cost, leverage, currentPrice) == Quot(cost, currentPrice)

buy_amountFromCost(cost, leverage, currentPrice) == Quot(cost * leverage, currentPrice)

sell_amountFromCost(cost, leverage, currentPrice) == Quot(cost * leverage, currentPrice)

SameSide(side) == side

buy_protectiveSide(side) == IF side = "buy" THEN "sell" ELSE "buy"

sell_protectiveSide(side) == IF side = "sell" THEN "buy" ELSE "sell"

placeStopLoss(symbol, amount, stopPrice, side, rejected) ==
  LET stopSide == buy_protectiveSide(side)
      ok == OrderAccepted(0, "STOP_MARKET", stopSide, amount, TRUE, rejected)
  IN  OrderCall(symbol, "STOP_MARKET", stopSide, amount, Undefined, TRUE, stopPrice, ok)

placeTakeProfit(symbol, amount, profitPrice, side, rejected) ==
  LET profitSide == buy_protectiveSide(side)
      ok == OrderAccepted(0, "TAKE_PROFIT_MARKET", profitSide, amount, TRUE, rejected)
  IN  OrderCall(symbol, "TAKE_PROFIT_MARKET", profitSide, amount, Undefined, TRUE, profitPrice, ok)

sell_placeStopLoss(symbol, amount, stopPrice, side, rejected) ==
  LET stopSide == sell_protectiveSide(side)
      ok == OrderAccepted(0, "STOP_MARKET", stopSide, amount, TRUE, rejected)
  IN  OrderCall(symbol, "STOP_MARKET", stopSide, amount, Undefined, TRUE, stopPrice, ok)

sell_placeTakeProfit(symbol, amount, profitPrice, side, rejected) ==
  LET profitSide == sell_protectiveSide(side)
      ok == OrderAccepted(0, "TAKE_PROFIT_MARKET", profitSide, amount, TRUE, rejected)
  IN  OrderCall(symbol, "TAKE_PROFIT_MARKET", profitSide, amount, Undefined, TRUE, profitPrice, ok)

(* setLeverage and setMarginMode catch the venue's rejection: thrown tells  *)
(* whether an exception leaves the function.                               *)
RethrowingSetLeverage(symbol, leverage, rejected) ==
  [call |-> LeverageCall("setLeverage", symbol, leverage, ~rejected), thrown |-> rejected]

setLeverage(symbol, leverage, rejected) ==
  [call |-> LeverageCall("setLeverage", symbol, leverage, ~rejected), thrown |-> FALSE]

setMarginMode(symbol, rejected) ==
  [call |-> VenueCall("setMarginMode", symbol, ~rejected), thrown |-> FALSE]

sell_setLeverage(symbol, leverage, rejected) ==
  [call |-> LeverageCall("setLeverage", symbol, leverage, ~rejected), thrown |-> FALSE]

sell_setMarginMode(symbol, rejected) ==
  [call |-> VenueCall("setMarginMode", symbol, ~rejected), thrown |-> FALSE]

OrderIdOf(call) == IF call.ok THEN "id" ELSE "undefined"

ApiFailure(options, side, message) ==
  [success |-> FALSE, error |-> message, symbol |-> normalizeSymbol(options.symbol),
   side |-> side, type |-> options.orderType, amount |-> OrDefault(options.amount, 0),
   leverage |-> Undefined, stopLossOrderId |-> "undefined", takeProfitOrderId |-> "undefined"]

(* The part of buy() and sell() from the main order on: the order, then    *)
(* the protective orders of a new position.                                *)
PlaceOrders(p, options, symbol, side, orderAmount, leverage, reduceOnly, protect, before, stopCall, profitCall, env) ==
  LET market == MarketOf(symbol)
      type == options.orderType
      limitPrice == IF type = "limit" THEN options.price ELSE Undefined
      ok == OrderAccepted(p[market], type, side, orderAmount, reduceOnly, env.orderRejected)
      order == OrderCall(symbol, type, side, orderAmount, limitPrice, reduceOnly, Undefined, ok)
      stopCalls == IF protect /\ Truthy(options.stopLoss) THEN <<stopCall>> ELSE <<>>
      profitCalls == IF protect /\ Truthy(options.takeProfit) THEN <<profitCall>> ELSE <<>>
  IN  IF type = "limit" /\ ~Truthy(options.price)
      THEN [pos |-> p, calls |-> before,
            result |-> ApiFailure(options, side, "Price must be specified for limit orders")]
      ELSE IF ~ok
      THEN [pos |-> p, calls |-> before \o <<order>>,
            result |-> ApiFailure(options, side, VenueError)]
      ELSE [pos |-> [p EXCEPT ![market] = Filled(p[market], type, side, orderAmount, reduceOnly)],
            calls |-> before \o <<order>> \o stopCalls \o profitCalls,
            result |-> [success |-> TRUE, error |-> "", symbol |-> symbol, side |-> side,
                        type |-> type, amount |-> orderAmount, leverage |-> leverage,
                        stopLossOrderId |-> IF stopCalls = <<>> THEN "undefined"
                                            ELSE OrderIdOf(stopCall),
                        takeProfitOrderId |-> IF profitCalls = <<>> THEN "undefined"
                                              ELSE OrderIdOf(profitCall)]]

buy(p, options, env) ==
  LET symbol == normalizeSymbol(options.symbol)
      leverage == validateLeverage(OrDefault(options.leverage, 1))
      reduceOnly == options.reduceOnly
      leverageSet == setLeverage(symbol, leverage, env.leverageRejected)
      marginModeSet == setMarginMode(symbol, env.marginRejected)
      setup == IF leverageSet.thrown THEN <<leverageSet.call>>
               ELSE <<leverageSet.call, marginModeSet.call>>
      ticker == [VenueCall("fetchTicker", symbol, ~env.tickerFail) EXCEPT
                   !.value = IF env.tickerFail THEN Undefined ELSE env.price]
      currentPrice == env.price
      orderAmount == IF Truthy(options.amount) THEN options.amount
                     ELSE buy_amountFromCost(options.cost, leverage, currentPrice)
      before == IF Truthy(options.amount) THEN setup ELSE setup \o <<ticker>>
  IN  IF leverageSet.thrown \/ marginModeSet.thrown
      THEN [pos |-> p, calls |-> setup, result |-> ApiFailure(options, "buy", VenueError)]
      ELSE IF ~Truthy(options.amount) /\ ~Truthy(options.cost)
      THEN [pos |-> p, calls |-> setup,
            result |-> ApiFailure(options, "buy", "Either 'amount' or 'cost' must be specified")]
      ELSE IF ~Truthy(options.amount) /\ env.tickerFail
      THEN [pos |-> p, calls |-> before, result |-> ApiFailure(options, "buy", VenueError)]
      ELSE PlaceOrders(p, options, symbol, "buy", orderAmount, leverage, reduceOnly, TRUE, before,
                       placeStopLoss(symbol, orderAmount, options.stopLoss, "buy", env.stopRejected),
                       placeTakeProfit(symbol, orderAmount, options.takeProfit, "buy",
                                       env.profitRejected),
                       env)

getCurrentPosition(p, symbol, env) ==
  LET listed == IF env.futuresFormat THEN FuturesSymbol(MarketOf(symbol))
                ELSE BinanceSymbol(MarketOf(symbol))
  IN  IF env.positionsFail THEN 0
      ELSE IF listed = symbol /\ p[MarketOf(symbol)] # 0 THEN p[MarketOf(symbol)]
      ELSE 0

sell(p, options, env) ==
  LET symbol == normalizeSymbol(options.symbol)
      fetchPositions == VenueCall("fetchPositions", symbol, ~env.positionsFail)
      currentPosition == getCurrentPosition(p, symbol, env)
      leverage == IF options.closePosition THEN 1
                  ELSE sell_validateLeverage(OrDefault(options.leverage, 1))
      reduceOnly == IF options.closePosition THEN TRUE ELSE options.reduceOnly
      ticker == [VenueCall("fetchTicker", symbol, ~env.tickerFail) EXCEPT
                   !.value = IF env.tickerFail THEN Undefined ELSE env.price]
      currentPrice == env.price
      orderAmount == IF options.closePosition THEN Abs(currentPosition)
                     ELSE IF Truthy(options.amount) THEN options.amount
                     ELSE sell_amountFromCost(options.cost, leverage, currentPrice)
      sizing == IF options.closePosition THEN <<fetchPositions>>
                ELSE IF Truthy(options.amount) THEN <<>>
                ELSE <<ticker>>
      leverageSet == sell_setLeverage(symbol, leverage, env.leverageRejected)
      marginModeSet == sell_setMarginMode(symbol, env.marginRejected)
      setsLeverage == ~options.closePosition /\ leverage > 1
      setup == IF ~setsLeverage THEN <<>>
               ELSE IF leverageSet.thrown THEN <<leverageSet.call>>
               ELSE <<leverageSet.call, marginModeSet.call>>
  IN  IF options.closePosition /\ currentPosition = 0
      THEN [pos |-> p, calls |-> sizing,
            result |-> ApiFailure(options, "sell", "No open position found for " \o symbol)]
      ELSE IF options.closePosition /\ currentPosition < 0
      THEN [pos |-> p, calls |-> sizing,
            result |-> ApiFailure(options, "sell", "Cannot close short position with sell")]
      ELSE IF ~options.closePosition /\ ~Truthy(options.amount) /\ ~Truthy(options.cost)
      THEN [pos |-> p, calls |-> <<>>,
            result |-> ApiFailure(options, "sell",
                                  "Either 'amount', 'cost', or 'closePosition' must be specified")]
      ELSE IF ~options.closePosition /\ ~Truthy(options.amount) /\ env.tickerFail
      THEN [pos |-> p, calls |-> sizing, result |-> ApiFailure(options, "sell", VenueError)]
      ELSE IF setsLeverage /\ (leverageSet.thrown \/ marginModeSet.thrown)
      THEN [pos |-> p, calls |-> sizing \o setup,
            result |-> ApiFailure(options, "sell", VenueError)]
      ELSE PlaceOrders(p, options, symbol, "sell", orderAmount, leverage, reduceOnly,
                       ~options.closePosition, sizing \o setup,
                       sell_placeStopLoss(symbol, orderAmount, options.stopLoss, "sell",
                                          env.stopRejected),
                       sell_placeTakeProfit(symbol, orderAmount, options.takeProfit, "sell",
                                            env.profitRejected),
                       env)

(***************************************************************************)
(* Inputs of buy() and sell().                                             *)
(***************************************************************************)
ApiSymbols == {"BTC", "ETH/USDT"}

ApiPrices == {30000}

ApiLeverages == {Undefined, 3, 25}

OrderOptions ==
  {o \in [symbol : ApiSymbols, amount : {Undefined, 2}, cost : {Undefined, 60000},
          leverage : ApiLeverages, orderType : {"market", "limit"}, price : {Undefined, 29500},
          stopLoss : StopLosses, takeProfit : ProfitTargets, reduceOnly : {FALSE},
          closePosition : {FALSE}] :
     o.orderType = "market" => o.price = Undefined}

CloseOptions ==
  {o \in [symbol : ApiSymbols, amount : {Undefined, 2}, cost : {Undefined},
          leverage : {Undefined}, orderType : {"market", "limit"}, price : {Undefined, 29500},
          stopLoss : {Undefined}, takeProfit : {Undefined}, reduceOnly : {FALSE},
          closePosition : {TRUE}] :
     o.orderType = "market" => o.price = Undefined}

OrderEnvs(o, always) ==
  {[DefaultEnv EXCEPT !.leverageRejected = l, !.marginRejected = m, !.tickerFail = t[1],
                      !.price = t[2], !.orderRejected = r, !.stopRejected = s,
                      !.profitRejected = f] :
     l \in IF always \/ OrDefault(o.leverage, 1) > 1 THEN BOOLEAN ELSE {FALSE},
     m \in IF always \/ OrDefault(o.leverage, 1) > 1 THEN BOOLEAN ELSE {FALSE},
     t \in IF ~Truthy(o.amount) /\ Truthy(o.cost)
           THEN {<<FALSE, x>> : x \in ApiPrices} \cup {<<TRUE, DefaultEnv.price>>}
           ELSE {<<FALSE, DefaultEnv.price>>},
     r \in BOOLEAN,
     s \in IF Truthy(o.stopLoss) THEN BOOLEAN ELSE {FALSE},
     f \in IF Truthy(o.takeProfit) THEN BOOLEAN ELSE {FALSE}}

SellCloseEnvs ==
  {[DefaultEnv EXCEPT !.positionsFail = f, !.futuresFormat = u, !.orderRejected = r] :
     f \in BOOLEAN, u \in BOOLEAN, r \in BOOLEAN}

(***************************************************************************)
(* The decision loop of run(): conversion of the oracle's decisions.       *)
(***************************************************************************)
operation(signal) ==
  CASE signal = "buy_to_enter" -> "BUY_TO_ENTER"
    [] signal = "sell_to_enter" -> "SELL_TO_ENTER"
    [] signal = "hold" -> "HOLD"
    [] signal = "close" -> "CLOSE"
    [] OTHER -> "HOLD"

coin(name) == IF name \in Symbols THEN name ELSE "BTC"

aiDecision(decision) ==
  [signal |-> decision.signal, coin |-> coin(decision.coin), quantity |-> decision.quantity,
   leverage |-> decision.leverage, profit_target |-> decision.profit_target,
   stop_loss |-> decision.stop_loss]

baseTradingData(decision) ==
  [symbol |-> coin(decision.coin), opeartion |-> operation(decision.signal),
   quantity |-> decision.quantity, stopLoss |-> decision.stop_loss, pricing |-> 0]

TradingRow(decision, executionResult) ==
  IF executionResult.execution # <<>>
  THEN [baseTradingData(decision) EXCEPT
          !.pricing = OrDefault(executionResult.execution[1].executedPrice, 0)]
  ELSE baseTradingData(decision)

(* What the oracle may answer: generateObject parses the answer as JSON    *)
(* and validates nothing, so a signal or coin outside the enumerations     *)
(* and an absent quantity all reach the loop.                              *)
RawSignals == {"buy_to_enter", "sell_to_enter", "close", "hold", "bogus"}

RawCoins == {"BTC", "ETH", "ADA"}

RawDecisions ==
  {d \in [signal : RawSignals, coin : RawCoins, quantity : {Undefined, 2}, leverage : {1},
          profit_target : {Undefined}, stop_loss : {Undefined}] :
     d.quantity = Undefined => d.signal \in {"buy_to_enter", "sell_to_enter"}}

RunCapitals == Capitals \cup {0}

RunEnvs(d) ==
  {[DefaultEnv EXCEPT !.orderRejected = o, !.balance = b] :
     o \in IF d.signal \in {"buy_to_enter", "sell_to_enter"} THEN BOOLEAN ELSE {FALSE},
     b \in IF d.signal = "close" THEN Balances ELSE {0}}

IdleCycle ==
  [pc |-> "idle", total |-> 0, todo |-> 0, availableCapital |-> 0,
   decisions |-> <<>>, handed |-> <<>>, tradingData |-> <<>>, executionResults |-> <<>>]

(* The oracle's reasoning text, which may be empty.                        *)
Reasonings == {"", "reasoning"}

Justifications == {"", "justification"}

(* The for loop goes on to the next decision whatever the result was.      *)
(* The capital an execution of the loop is given: the value read before   *)
(* the loop, whatever the venue's balance is by now.                       *)
RefetchedCapital(availableCapital, venueBalance) == venueBalance

capitalOfExecution(availableCapital, venueBalance) == availableCapital

StopAfterFailure(todo, executionResult) == IF executionResult.success THEN todo - 1 ELSE 0

LeftAfter(todo, executionResult) == todo - 1

executionSummary(executionResults) ==
  [i \in DOMAIN executionResults |->
     [coin |-> executionResults[i].coin,
      outcome |-> IF executionResults[i].success THEN "SUCCESS" ELSE "FAILED",
      error |-> executionResults[i].error]]

(* The chat text is the justification followed by the summary; an empty   *)
(* summary is printed as "No executions (all hold)".                       *)
chatRecord(reasoning, justification, executionResults) ==
  [reasoning |-> IF reasoning = "" THEN "<no reasoning>" ELSE reasoning,
   chat |-> [justification |-> IF justification = "" THEN "<no justification>"
                               ELSE justification,
             executions |-> executionSummary(executionResults)]]

CreateManyUnlinked(trading, tradingData, chatId) ==
  trading \o [i \in DOMAIN tradingData |-> [data |-> tradingData[i], chatId |-> 0]]

createMany(trading, tradingData, chatId) ==
  trading \o [i \in DOMAIN tradingData |-> [data |-> tradingData[i], chatId |-> chatId]]

(***************************************************************************)
(* State.  pos: the venue's signed position per symbol.  openPositions:    *)
(* the ledger.  lastOp: the call in progress whose result the caller has   *)
(* not yet taken (op = "none" when there is none).  trip: the symbol the   *)
(* previous call entered long from a flat position, "off" if it did not.   *)
(* cycle: the position of run() in its loop, the oracle's answer (number   *)
(* of decisions and the decisions consumed so far; its reasoning text is   *)
(* drawn when it is used), the                                             *)
(* decisions handed to executeDecision, its local variables, and           *)
(* database: the chat and trading records it has saved.                    *)
(***************************************************************************)
NoOp == [op |-> "none"]

(***************************************************************************)
(* getAllMarketStates: one fetch per requested symbol, all in flight at    *)
(* once, joined by Promise.all.                                            *)
(***************************************************************************)
MarketSymbols == {"BTC/USDT", "ETH/USDT", "SOL/USDT"}

SymbolLists == UNION {[1 .. n -> MarketSymbols] : n \in 0 .. MaxSymbols}

Pending == "pending"

IdleMarket ==
  [pc |-> "idle", symbols |-> <<>>, started |-> {}, promises |-> <<>>, order |-> <<>>,
   fetched |-> <<>>, thrown |-> FALSE, marketStates |-> {}]

(* What the callback of symbols.map settles with once getCurrentMarketState *)
(* has answered: ok stands for a state that is a MarketState, ~ok for     *)
(* state: null.                                                            *)
RethrowingCallback(symbol, ok) ==
  [symbol |-> symbol, ok |-> ok, rejected |-> ~ok]

mapCallback(symbol, ok) ==
  [symbol |-> symbol, ok |-> ok, rejected |-> FALSE]

PendingPromise == [settled |-> FALSE]

Settled(value) == [settled |-> TRUE, value |-> value]

IsSettled(promise) == promise.settled

IsRejected(promise) == promise.settled /\ promise.value.rejected

(* Promise.all settles when every promise is fulfilled, or as soon as one  *)
(* is rejected.                                                            *)
PromiseAllSettled(promises) ==
  \/ \A i \in DOMAIN promises : IsSettled(promises[i])
  \/ \E i \in DOMAIN promises : IsRejected(promises[i])

PromiseAllRejected(promises) == \E i \in DOMAIN promises : IsRejected(promises[i])

(* results.forEach over the values Promise.all resolved with.              *)
forEachResult(promises) ==
  {promises[i].value.symbol : i \in {j \in DOMAIN promises : promises[j].value.ok}}

Cycles == {1, 2}

OpenedPositions == {-2, 0, 2}

IdleClose == [pc |-> "idle", symbol |-> "", contracts |-> 0, side |-> ""]

closeSide(contracts) == IF contracts > 0 THEN "sell" ELSE "buy"

Init ==
  /\ pos \in [Symbols -> InitialPositions]
  /\ openPositions = <<>>
  /\ lastOp = NoOp
  /\ nOps = 0
  /\ trip = "off"
  /\ cycle = IdleCycle
  /\ database = [chat |-> <<>>, trading |-> <<>>]
  /\ fetches = IdleMarket
  /\ dailyPnl = 0
  /\ closing = [c \in Cycles |-> IdleClose]

(* Two decision cycles that each close a position: the timer of           *)
(* local-cron.js starts a cycle every three minutes whether or not the     *)
(* one before has ended.  The positions are ones earlier entries left.     *)
InitClosing ==
  /\ pos \in [Symbols -> OpenedPositions]
  /\ openPositions = <<>>
  /\ lastOp = NoOp
  /\ nOps = 0
  /\ trip = "off"
  /\ cycle = IdleCycle
  /\ database = [chat |-> <<>>, trading |-> <<>>]
  /\ fetches = IdleMarket
  /\ dailyPnl = 0
  /\ closing = [c \in Cycles |-> IdleClose]

(* closePosition up to the answer of fetchPositions.                       *)
ClosePositionReads ==
  /\ \E c \in Cycles, symbol \in Symbols :
       /\ closing[c].pc = "idle"
       /\ closing' = [closing EXCEPT ![c] = [pc |-> "read", symbol |-> symbol,
                                              contracts |-> pos[symbol], side |-> ""]]
  /\ UNCHANGED <<pos, openPositions, lastOp, nOps, trip, cycle, database, fetches, dailyPnl>>

(* closePosition from there on: the order is made from the position read. *)
ClosePositionOrders ==
  /\ \E c \in Cycles, balance \in Balances :
       LET symbol == closing[c].symbol
           contracts == closing[c].contracts
           side == IF contracts = 0 THEN "sell" ELSE closeSide(contracts)
           closeQuantity == IF contracts = 0 THEN balance ELSE Abs(contracts)
       IN  /\ closing[c].pc = "read"
           /\ IF contracts = 0 /\ balance <= 0
              THEN /\ closing' = [closing EXCEPT ![c].pc = "failed"]
                   /\ pos' = pos
              ELSE /\ closing' = [closing EXCEPT ![c].pc = "closed", ![c].side = side]
                   /\ pos' = [pos EXCEPT
                                ![symbol] = Filled(@, "market", side, closeQuantity, FALSE)]
  /\ UNCHANGED <<openPositions, lastOp, nOps, trip, cycle, database, fetches, dailyPnl>>

NextClosing == ClosePositionReads \/ ClosePositionOrders

SpecClosing == InitClosing /\ [][NextClosing]_vars

Record(op, input, capital, out) ==
  [op |-> op, input |-> input, capital |-> capital, prePos |-> pos, preLedger |-> openPositions,
   calls |-> out.calls, result |-> out.result, entry |-> out.entry,
   protective |-> out.protective]

Execute(d, capital, env) ==
  LET out == executeDecision(pos, openPositions, d, capital, env)
  IN  /\ pos' = out.pos
      /\ openPositions' = out.ledger
      /\ lastOp' = Record("executeDecision", d, capital, out)

ExecuteDecision ==
  /\ nOps < MaxOps
  /\ lastOp.op = "none"
  /\ \E d \in Decisions, capital \in Capitals :
       \E env \in DecisionEnvs(d) : Execute(d, capital, env)
  /\ nOps' = nOps + 1
  /\ UNCHANGED <<trip, cycle, database, fetches, dailyPnl, closing>>

EnteredFromFlat(op) ==
  IF /\ op.op = "executeDecision"
     /\ op.input.signal = "buy_to_enter"
     /\ op.result.success
     /\ op.prePos[op.input.coin] = 0
     /\ ~Tracked(op.preLedger, op.input.coin)
  THEN op.input.coin
  ELSE "off"

Return ==
  /\ lastOp.op # "none"
  /\ lastOp' = NoOp
  /\ trip' = EnteredFromFlat(lastOp)
  /\ UNCHANGED <<pos, openPositions, nOps, cycle, database, fetches, dailyPnl, closing>>

ApiRecord(op, options, out) ==
  [op |-> op, input |-> options, capital |-> Undefined, prePos |-> pos,
   preLedger |-> openPositions, calls |-> out.calls, result |-> out.result,
   entry |-> <<>>, protective |-> <<>>]

Buy ==
  /\ nOps < MaxOps
  /\ lastOp.op = "none"
  /\ \E o \in OrderOptions : \E env \in OrderEnvs(o, TRUE) :
       LET out == buy(pos, o, env)
       IN  /\ pos' = out.pos
           /\ lastOp' = ApiRecord("buy", o, out)
  /\ nOps' = nOps + 1
  /\ UNCHANGED <<openPositions, trip, cycle, database, fetches, dailyPnl, closing>>

Sell ==
  /\ nOps < MaxOps
  /\ lastOp.op = "none"
  /\ \E o \in OrderOptions \cup CloseOptions :
       \E env \in IF o.closePosition THEN SellCloseEnvs ELSE OrderEnvs(o, FALSE) :
         LET out == sell(pos, o, env)
         IN  /\ pos' = out.pos
             /\ lastOp' = ApiRecord("sell", o, out)
  /\ nOps' = nOps + 1
  /\ UNCHANGED <<openPositions, trip, cycle, database, fetches, dailyPnl, closing>>

(* run() up to the loop: the oracle has answered with a list of decisions  *)
(* (their number is drawn here, each decision when its turn comes) and     *)
(* the available capital has been fetched.                                 *)
RunStart ==
  /\ cycle.pc = "idle"
  /\ Len(database.chat) < MaxRuns
  /\ lastOp.op = "none"
  /\ \E n \in 0..(MaxDecisions - nOps), capital \in RunCapitals :
       cycle' = [IdleCycle EXCEPT !.pc = "loop", !.total = n, !.todo = n,
                                  !.availableCapital = capital]
  /\ UNCHANGED <<pos, openPositions, lastOp, nOps, trip, database, fetches, dailyPnl, closing>>

(* One iteration of the loop over the decisions.                           *)
RunStep ==
  /\ cycle.pc = "loop"
  /\ cycle.todo > 0
  /\ lastOp.op = "none"
  /\ \E decision \in RawDecisions :
       IF decision.signal # "hold"
       THEN \E env \in RunEnvs(decision), venueBalance \in RunCapitals :
              LET capital == capitalOfExecution(cycle.availableCapital, venueBalance)
                  out == executeDecision(pos, openPositions, aiDecision(decision),
                                         capital, env)
              IN  /\ pos' = out.pos
                  /\ openPositions' = out.ledger
                  /\ lastOp' = [op |-> "run", raw |-> decision,
                                input |-> aiDecision(decision),
                                capital |-> capital, prePos |-> pos,
                                preLedger |-> openPositions, calls |-> out.calls,
                                result |-> out.result, entry |-> out.entry,
                                protective |-> out.protective]
                  /\ cycle' = [cycle EXCEPT
                       !.todo = LeftAfter(@, out.result),
                       !.decisions = Append(@, decision),
                       !.handed = Append(@, aiDecision(decision)),
                       !.tradingData = Append(@, TradingRow(decision, out.result)),
                       !.executionResults =
                          Append(@, [coin |-> coin(decision.coin),
                                     success |-> out.result.success,
                                     error |-> out.result.error])]
       ELSE /\ lastOp' = [op |-> "run", raw |-> decision, input |-> aiDecision(decision),
                          capital |-> cycle.availableCapital, prePos |-> pos,
                          preLedger |-> openPositions, calls |-> <<>>,
                          result |-> BaseResult, entry |-> <<>>, protective |-> <<>>]
            /\ cycle' = [cycle EXCEPT !.todo = @ - 1,
                                      !.decisions = Append(@, decision),
                                      !.tradingData = Append(@, baseTradingData(decision))]
            /\ UNCHANGED <<pos, openPositions>>
  /\ nOps' = nOps + 1
  /\ UNCHANGED <<trip, database, fetches, dailyPnl, closing>>

(* After the loop: the chat record, then the trading records.              *)
RunFinish ==
  /\ cycle.pc = "loop"
  /\ cycle.todo = 0
  /\ lastOp.op = "none"
  /\ \E reasoning \in Reasonings, justification \in Justifications :
       database' = [chat |-> Append(database.chat,
                                    chatRecord(reasoning, justification,
                                               cycle.executionResults)),
                    trading |-> createMany(database.trading, cycle.tradingData,
                                           Len(database.chat) + 1)]
  /\ cycle' = IdleCycle
  /\ UNCHANGED <<pos, openPositions, lastOp, nOps, trip, fetches, dailyPnl, closing>>

(* The RiskManager called directly.                                        *)
PositionRisks ==
  {calculatePositionRisk(s, pr, pr, q, l, sl, cap) :
     s \in Symbols, pr \in Prices, q \in {-2, 2}, l \in Leverages, sl \in StopLosses,
     cap \in Capitals}

LedgerRecord(op, input) ==
  [op |-> op, input |-> input, capital |-> Undefined, prePos |-> pos,
   preLedger |-> openPositions, calls |-> <<>>, result |-> BaseResult,
   entry |-> <<>>, protective |-> <<>>]

AddOrUpdatePosition ==
  /\ \E position \in PositionRisks :
       /\ openPositions' = addOrUpdatePosition(openPositions, position)
       /\ lastOp' = LedgerRecord("addOrUpdatePosition", position)
  /\ UNCHANGED <<pos, nOps, trip, cycle, database, fetches, dailyPnl, closing>>

RemovePosition ==
  /\ \E symbol \in Symbols :
       /\ openPositions' = removePosition(openPositions, symbol)
       /\ lastOp' = LedgerRecord("removePosition", symbol)
  /\ UNCHANGED <<pos, nOps, trip, cycle, database, fetches, dailyPnl, closing>>

Next == ExecuteDecision \/ Return

(* validateLeverage on its own: leverages from -5.0 to 25.0 in steps of    *)
(* 0.1, and the value of an earlier call fed back in.                      *)
LeverageInputs == (-50) .. 250

ClampRecord(op, input, result) == [op |-> op, input |-> input, result |-> result]

ClampInputs(op) == LeverageInputs \cup (IF lastOp.op = op THEN {lastOp.result} ELSE {})

ValidateLeverage ==
  /\ \E tenths \in ClampInputs("validateLeverage") :
       lastOp' = ClampRecord("validateLeverage", tenths, validateLeverageTenths(tenths))
  /\ UNCHANGED <<pos, openPositions, nOps, trip, cycle, database, fetches, dailyPnl, closing>>

SellValidateLeverage ==
  /\ \E tenths \in ClampInputs("sell_validateLeverage") :
       lastOp' = ClampRecord("sell_validateLeverage", tenths, sell_validateLeverageTenths(tenths))
  /\ UNCHANGED <<pos, openPositions, nOps, trip, cycle, database, fetches, dailyPnl, closing>>

NextClamp == ValidateLeverage \/ SellValidateLeverage

SpecClamp == Init /\ [][NextClamp]_vars

GetAllMarketStates ==
  /\ fetches.pc \in {"idle", "returned"}
  /\ \E symbols \in SymbolLists :
       fetches' = [pc |-> "awaiting", symbols |-> symbols, started |-> DOMAIN symbols,
                  promises |-> [i \in DOMAIN symbols |-> PendingPromise], order |-> <<>>,
                  fetched |-> [i \in DOMAIN symbols |-> Pending], thrown |-> FALSE,
                  marketStates |-> {}]
  /\ UNCHANGED <<pos, openPositions, lastOp, nOps, trip, cycle, database, dailyPnl, closing>>

FetchSettles ==
  /\ fetches.pc = "awaiting"
  /\ \E i \in fetches.started, ok \in BOOLEAN :
       /\ ~IsSettled(fetches.promises[i])
       /\ fetches' = [fetches EXCEPT
                       !.fetched[i] = IF ok THEN "ok" ELSE "failed",
                       !.promises[i] = Settled(mapCallback(fetches.symbols[i], ok)),
                       !.order = Append(@, i)]
  /\ UNCHANGED <<pos, openPositions, lastOp, nOps, trip, cycle, database, dailyPnl, closing>>

PromiseAllResumes ==
  /\ fetches.pc = "awaiting"
  /\ PromiseAllSettled(fetches.promises)
  /\ fetches' = [fetches EXCEPT
                  !.pc = "returned",
                  !.thrown = PromiseAllRejected(fetches.promises),
                  !.marketStates = IF PromiseAllRejected(fetches.promises) THEN {}
                                   ELSE forEachResult(fetches.promises)]
  /\ UNCHANGED <<pos, openPositions, lastOp, nOps, trip, cycle, database, dailyPnl, closing>>

NextMarket == GetAllMarketStates \/ FetchSettles \/ PromiseAllResumes

SpecMarket == Init /\ [][NextMarket]_vars

(***************************************************************************)
(* The account snapshot's figures.  Ratios are in thousandths; the three   *)
(* values of a JavaScript number that are not finite are three integers    *)
(* outside the range of every finite value here.                           *)
(***************************************************************************)
Infinity == 1000000000

NegativeInfinity == -1000000000

NaN == 1000000001

IsFinite(x) == x \notin {Infinity, NegativeInfinity, NaN}

(* a / b of two finite numbers, in thousandths.                            *)
Divide(a, b) ==
  IF b # 0 THEN Quot(a * 1000, b)
  ELSE IF a = 0 THEN NaN
  ELSE IF a > 0 THEN Infinity
  ELSE NegativeInfinity

(* a / b where a and b are already results of Divide.                      *)
DivideRatios(a, b) ==
  IF a = NaN \/ b = NaN THEN NaN
  ELSE IF ~IsFinite(a) /\ ~IsFinite(b) THEN NaN
  ELSE IF ~IsFinite(a) THEN (IF (a > 0) = (b >= 0) THEN Infinity ELSE NegativeInfinity)
  ELSE IF ~IsFinite(b) THEN 0
  ELSE Divide(a, b)

RECURSIVE SumOf(_)
SumOf(numbers) == IF numbers = <<>> THEN 0 ELSE Head(numbers) + SumOf(Tail(numbers))

RECURSIVE SumOfSquares(_)
SumOfSquares(numbers) ==
  IF numbers = <<>> THEN 0 ELSE Head(numbers) * Head(numbers) + SumOfSquares(Tail(numbers))

MathSqrt(n) == CHOOSE r \in 0 .. n : r * r <= n /\ (r + 1) * (r + 1) > n

(* With n returns of sum S and sum of squares Q, the mean is S / n and the *)
(* variance (n * Q - S * S) / (n * n), so mean / stdDev is                 *)
(* S / sqrt(n * Q - S * S).                                                *)
calculateSharpeRatio(returns) ==
  IF Len(returns) = 0 THEN 0
  ELSE LET spread == Len(returns) * SumOfSquares(returns) - SumOf(returns) * SumOf(returns)
       IN  IF spread = 0 THEN 0 ELSE Divide(SumOf(returns), MathSqrt(spread))

(* The definition of getAccountInformationAndPerformance at lines 346-376. *)
unguardedSnapshot(totalCashValue, unrealizedPnl, initialCapital) ==
  LET currentTotalReturn == Divide(totalCashValue - initialCapital, initialCapital)
  IN  [currentTotalReturn |-> currentTotalReturn,
       sharpeRatio |-> DivideRatios(currentTotalReturn,
                                    Divide(SumOf(unrealizedPnl), initialCapital))]

(* The definition at lines 422-523.                                        *)
getAccountInformationAndPerformance(totalCashValue, unrealizedPnl, initialCapital) ==
  LET currentTotalReturn == Divide(totalCashValue - initialCapital, initialCapital)
      totalUnrealizedPnl == SumOf(unrealizedPnl)
  IN  [currentTotalReturn |-> currentTotalReturn,
       sharpeRatio |-> IF totalUnrealizedPnl # 0 /\ initialCapital > 0
                       THEN DivideRatios(currentTotalReturn,
                                         Divide(totalUnrealizedPnl, initialCapital))
                       ELSE 0]

CashValues == {0, 5000, 12000}

InitialCapitals == {0, 10000}

UnrealizedPnls == UNION {[1 .. n -> {-100, 0, 100}] : n \in 0 .. MaxPositions}

PositionReturns == UNION {[1 .. n -> {-5, 0, 5, 10}] : n \in 0 .. MaxPositions}

SnapshotRecord(op, totalCashValue, unrealizedPnl, initialCapital, out) ==
  [op |-> op, totalCashValue |-> totalCashValue, unrealizedPnl |-> unrealizedPnl,
   initialCapital |-> initialCapital, currentTotalReturn |-> out.currentTotalReturn,
   sharpeRatio |-> out.sharpeRatio]

GetAccountInformationAndPerformance ==
  /\ \E cash \in CashValues, pnl \in UnrealizedPnls, capital \in InitialCapitals :
       lastOp' = SnapshotRecord("getAccountInformationAndPerformance", cash, pnl, capital,
                                getAccountInformationAndPerformance(cash, pnl, capital))
  /\ UNCHANGED <<pos, openPositions, nOps, trip, cycle, database, fetches, dailyPnl, closing>>

UnguardedSnapshot ==
  /\ \E cash \in CashValues, pnl \in UnrealizedPnls, capital \in InitialCapitals :
       lastOp' = SnapshotRecord("unguardedSnapshot", cash, pnl, capital,
                                unguardedSnapshot(cash, pnl, capital))
  /\ UNCHANGED <<pos, openPositions, nOps, trip, cycle, database, fetches, dailyPnl, closing>>

CalculateSharpeRatio ==
  /\ \E returns \in PositionReturns :
       lastOp' = [op |-> "calculateSharpeRatio", returns |-> returns,
                  sharpeRatio |-> calculateSharpeRatio(returns)]
  /\ UNCHANGED <<pos, openPositions, nOps, trip, cycle, database, fetches, dailyPnl, closing>>

NextSnapshot == GetAccountInformationAndPerformance \/ UnguardedSnapshot \/ CalculateSharpeRatio

SpecSnapshot == Init /\ [][NextSnapshot]_vars

(***************************************************************************)
(* getCurrentMarketState.  The venue answers fetchOHLCV with some number   *)
(* of candles, here all closing at one price, or fails.  Of the            *)
(* indicators, the two EMAs on each timeframe with the longest windows are *)
(* kept: on a flat series an EMA equals the price.                         *)
(***************************************************************************)
CandleCounts == {0, 10, 19, 20, 34, 35, 49, 50, 100}

ClosePrices == {2000, 30000}

Candles(count, price) == [i \in 1 .. count |-> price]

(* EMA.calculate of the technicalindicators package: nothing until there   *)
(* are period values, then one value per further candle.                   *)
calculateEMA(values, period) ==
  IF Len(values) < period THEN <<>>
  ELSE [i \in 1 .. (Len(values) - period + 1) |-> values[i + period - 1]]

(* Number(series[series.length - 1]) || 0                                  *)
LastOrZero(series) == IF series = <<>> THEN 0 ELSE OrDefault(series[Len(series)], 0)

getCurrentMarketState(symbol, ohlcv3m, ohlcv4h) ==
  IF ohlcv3m.failed \/ ohlcv4h.failed
  THEN [thrown |-> TRUE, state |-> <<>>]
  ELSE [thrown |-> FALSE,
        state |-> <<[current_price |-> LastOrZero(ohlcv3m.closes),
                     current_ema20 |-> LastOrZero(calculateEMA(ohlcv3m.closes, 20)),
                     ema_20 |-> LastOrZero(calculateEMA(ohlcv4h.closes, 20)),
                     ema_50 |-> LastOrZero(calculateEMA(ohlcv4h.closes, 50))]>>]

OhlcvAnswers ==
  {[failed |-> FALSE, closes |-> Candles(n, pr)] : n \in CandleCounts, pr \in ClosePrices}
    \cup {[failed |-> TRUE, closes |-> <<>>]}

GetCurrentMarketState ==
  /\ \E symbol \in MarketSymbols, ohlcv3m \in OhlcvAnswers, ohlcv4h \in OhlcvAnswers :
       lastOp' = [op |-> "getCurrentMarketState", symbol |-> symbol,
                  failed |-> ohlcv3m.failed \/ ohlcv4h.failed,
                  candles3m |-> Len(ohlcv3m.closes), candles4h |-> Len(ohlcv4h.closes),
                  result |-> getCurrentMarketState(symbol, ohlcv3m, ohlcv4h)]
  /\ UNCHANGED <<pos, openPositions, nOps, trip, cycle, database, fetches, dailyPnl, closing>>

NextMarketState == GetCurrentMarketState

SpecMarketState == Init /\ [][NextMarketState]_vars

(* The daily P&L of the RiskManager, moved in steps and kept within        *)
(* MaxDailyPnl of zero.                                                    *)
PnlAmounts == {-700000, -300000, 100000, 500000}

MaxDailyPnl == 2000000

UpdateDailyPnl ==
  /\ \E pnl \in PnlAmounts :
       /\ Abs(dailyPnl + pnl) <= MaxDailyPnl
       /\ dailyPnl' = dailyPnl + pnl
  /\ UNCHANGED <<pos, openPositions, lastOp, nOps, trip, cycle, database, fetches, closing>>

ResetDailyPnl ==
  /\ dailyPnl' = 0
  /\ UNCHANGED <<pos, openPositions, lastOp, nOps, trip, cycle, database, fetches, closing>>

ShouldHaltTrading ==
  /\ lastOp' = [op |-> "shouldHaltTrading", dailyPnl |-> dailyPnl,
                totalRisk |-> calculateTotalRisk(openPositions),
                result |-> shouldHaltTrading(dailyPnl, openPositions)]
  /\ UNCHANGED <<pos, openPositions, nOps, trip, cycle, database, fetches, dailyPnl, closing>>

NextHalt == UpdateDailyPnl \/ ResetDailyPnl \/ ShouldHaltTrading

SpecHalt == Init /\ [][NextHalt]_vars

NextLedger == AddOrUpdatePosition \/ RemovePosition

NextApi == Buy \/ Sell \/ Return

(* The enrichment of the open positions in                                 *)
(* getAccountInformationAndPerformance: the trade records of enter         *)
(* operations, newest first, at most 20; trade is the place of the record  *)
(* in the trading table, 0 when none matches.                              *)
RECURSIVE Newest(_, _)
Newest(indexes, take) ==
  IF indexes = {} \/ take = 0 THEN <<>>
  ELSE LET last == CHOOSE i \in indexes : \A j \in indexes : j <= i
       IN  <<last>> \o Newest(indexes \ {last}, take - 1)

recentTrades(trading) ==
  Newest({i \in DOMAIN trading :
            trading[i].data.opeartion \in {"BUY_TO_ENTER", "SELL_TO_ENTER"}}, 20)

matchingTrade(trading, recent, cleanSymbol) ==
  LET found == {k \in DOMAIN recent : trading[recent[k]].data.symbol = cleanSymbol}
  IN  IF found = {} THEN 0 ELSE recent[CHOOSE k \in found : \A l \in found : k <= l]

enrichedPositions(p, trading) ==
  LET recent == recentTrades(trading)
  IN  {[symbol |-> symbol, quantity |-> p[symbol],
        trade |-> matchingTrade(trading, recent, symbol),
        stopLoss |-> IF matchingTrade(trading, recent, symbol) = 0 THEN 0
                     ELSE OrDefault(trading[matchingTrade(trading, recent, symbol)].data.stopLoss, 0)] :
         symbol \in {c \in Symbols : p[c] # 0}}

(* The snapshot taken between cycles, as the metrics job and the next      *)
(* cycle do.                                                               *)
EnrichPositions ==
  /\ cycle.pc = "idle"
  /\ lastOp.op = "none"
  /\ database.trading # <<>>
  /\ lastOp' = [op |-> "getAccountInformationAndPerformance",
                positions |-> enrichedPositions(pos, database.trading)]
  /\ UNCHANGED <<pos, openPositions, nOps, trip, cycle, database, fetches, dailyPnl, closing>>

NextAudit == RunStart \/ RunStep \/ RunFinish \/ Return \/ EnrichPositions

SpecAudit == Init /\ [][NextAudit]_vars

NextRun == RunStart \/ RunStep \/ RunFinish \/ Return

Spec == Init /\ [][Next]_vars

SpecApi == Init /\ [][NextApi]_vars

SpecRun == Init /\ [][NextRun]_vars

SpecLedger == Init /\ [][NextLedger]_vars

(***************************************************************************)
(* Properties.  Each is stated on the call in progress (lastOp): its       *)
(* input, the venue state before it, the venue calls it made in order,     *)
(* and the result it is about to return.                                   *)
(***************************************************************************)
IsOrder(c) == c.call = "createOrder"

ProtectiveTypes == {"STOP_MARKET", "TAKE_PROFIT_MARKET"}

IsDecision(signals) == lastOp.op = "executeDecision" /\ lastOp.input.signal \in signals

IsCall(names) == lastOp.op \in names

IsSellClose == lastOp.op = "sell" /\ lastOp.input.closePosition

CallMarket == MarketOf(normalizeSymbol(lastOp.input.symbol))

HasWarnings(result) == "warnings" \in DOMAIN result /\ result.warnings # <<>>

OrderCalls == {i \in DOMAIN lastOp.calls : IsOrder(lastOp.calls[i])}

(* C1: for a symbol with an open position, every order a close submits     *)
(* (close decision, or sell with closePosition) is a sell when the          *)
(* position is long and a buy when it is short.                             *)
C1_CloseOrderReducesPosition ==
  /\ (IsDecision({"close"}) /\ lastOp.prePos[lastOp.input.coin] # 0) =>
       \A i \in OrderCalls :
         Reduces(lastOp.prePos[lastOp.input.coin], lastOp.calls[i].side)
  /\ (IsSellClose /\ lastOp.prePos[CallMarket] # 0) =>
       \A i \in OrderCalls : Reduces(lastOp.prePos[CallMarket], lastOp.calls[i].side)

(* C2: a close of a symbol whose venue position is zero fails, submits no   *)
(* order and makes no venue call other than the position check, whatever    *)
(* balance the account reports.                                             *)
C2_CloseOfFlatFailsWithoutOrder ==
  /\ (IsDecision({"close"}) /\ lastOp.prePos[lastOp.input.coin] = 0) =>
       /\ ~lastOp.result.success
       /\ \A i \in DOMAIN lastOp.calls : lastOp.calls[i].call = "fetchPositions"
  /\ (IsSellClose /\ lastOp.prePos[CallMarket] = 0) =>
       /\ ~lastOp.result.success
       /\ \A i \in DOMAIN lastOp.calls : lastOp.calls[i].call = "fetchPositions"

(* C3: a successful close decision that immediately follows a successful    *)
(* buy_to_enter on the same symbol, entered from flat, leaves the venue     *)
(* position of the symbol at zero and the ledger without an entry for it.   *)
C3_EnterThenCloseIsFlat ==
  (IsDecision({"close"}) /\ lastOp.result.success /\ trip = lastOp.input.coin) =>
    /\ pos[lastOp.input.coin] = 0
    /\ ~Tracked(openPositions, lastOp.input.coin)

(* C4: after a successful enter decision that supplies stop_loss, the       *)
(* venue has received a STOP_MARKET order triggered at stop_loss after the  *)
(* entry order, and likewise a TAKE_PROFIT_MARKET order for profit_target;  *)
(* otherwise the result carries a warning.                                  *)
C4_ProtectiveOrdersFollowEntry ==
  (IsDecision({"buy_to_enter", "sell_to_enter"}) /\ lastOp.result.success) =>
    /\ Truthy(lastOp.input.stop_loss) =>
         \/ \E i, j \in OrderCalls :
              /\ i < j
              /\ lastOp.calls[j].type = "STOP_MARKET"
              /\ lastOp.calls[j].stopPrice = lastOp.input.stop_loss
         \/ HasWarnings(lastOp.result)
    /\ Truthy(lastOp.input.profit_target) =>
         \/ \E i, j \in OrderCalls :
              /\ i < j
              /\ lastOp.calls[j].type = "TAKE_PROFIT_MARKET"
              /\ lastOp.calls[j].stopPrice = lastOp.input.profit_target
         \/ HasWarnings(lastOp.result)

(* C5: every stop-loss or take-profit order submitted by an entry made      *)
(* with buy is a sell, every one submitted by an entry made with sell is a  *)
(* buy, and each carries reduceOnly = true.                                 *)
C5_ProtectiveOrdersOppositeAndReduceOnly ==
  IsCall({"buy", "sell"}) =>
    \A i \in OrderCalls :
      lastOp.calls[i].type \in ProtectiveTypes =>
        /\ lastOp.calls[i].reduceOnly
        /\ lastOp.calls[i].side = (IF lastOp.op = "buy" THEN "sell" ELSE "buy")

(* A buy whose entry was accepted and that submitted both a stop-loss and a *)
(* take-profit order.                                                       *)
C5_Witness ==
  /\ lastOp.op = "buy"
  /\ lastOp.result.success
  /\ \E i \in OrderCalls : lastOp.calls[i].type = "STOP_MARKET"
  /\ \E i \in OrderCalls : lastOp.calls[i].type = "TAKE_PROFIT_MARKET"

(* C6: when the entry order succeeds and the stop-loss/take-profit          *)
(* placement after it fails, the result has success = true, carries the     *)
(* execution record and has a non-empty warnings list.                      *)
C6_ProtectiveFailureIsWarned ==
  /\ (/\ IsDecision({"buy_to_enter", "sell_to_enter"})
      /\ lastOp.entry # <<>> /\ lastOp.entry[1].success
      /\ lastOp.protective # <<>> /\ ~lastOp.protective[1].success) =>
       /\ lastOp.result.success
       /\ lastOp.result.execution # <<>>
       /\ HasWarnings(lastOp.result)
  /\ (/\ IsCall({"buy", "sell"})
      /\ \E i \in OrderCalls : lastOp.calls[i].type \notin ProtectiveTypes /\ lastOp.calls[i].ok
      /\ \E i \in OrderCalls : lastOp.calls[i].type \in ProtectiveTypes /\ ~lastOp.calls[i].ok) =>
       /\ lastOp.result.success
       /\ HasWarnings(lastOp.result)

(* C7: the order submitted by a successful close is a reduce-only market    *)
(* order whose amount is the absolute size of the position at close time.   *)
C7_CloseOrderIsReduceOnlyMarket ==
  ((IsDecision({"close"}) \/ IsSellClose) /\ lastOp.result.success) =>
    \A i \in OrderCalls :
      /\ IsMarket(lastOp.calls[i].type)
      /\ lastOp.calls[i].reduceOnly
      /\ lastOp.calls[i].amount =
           Abs(lastOp.prePos[IF IsSellClose THEN CallMarket ELSE lastOp.input.coin])

(* C8: when an enter decision gives a quantity, or a buy/sell call an       *)
(* amount, the entry order's amount is that value unchanged.                *)
C8_ExplicitQuantityIsUsedUnchanged ==
  /\ (IsDecision({"buy_to_enter", "sell_to_enter"}) /\ lastOp.input.quantity # Undefined) =>
       \A i \in OrderCalls :
         lastOp.calls[i].type \notin ProtectiveTypes =>
           lastOp.calls[i].amount = lastOp.input.quantity
  /\ (IsCall({"buy", "sell"}) /\ ~lastOp.input.closePosition
      /\ lastOp.input.amount # Undefined) =>
       \A i \in OrderCalls :
         lastOp.calls[i].type \notin ProtectiveTypes =>
           lastOp.calls[i].amount = lastOp.input.amount

IsCostEntry ==
  /\ IsCall({"buy", "sell"})
  /\ ~lastOp.input.closePosition
  /\ lastOp.input.orderType = "market"
  /\ ~Truthy(lastOp.input.amount)
  /\ Truthy(lastOp.input.cost)

TickerPrice ==
  lastOp.calls[CHOOSE i \in DOMAIN lastOp.calls : lastOp.calls[i].call = "fetchTicker"].value

EntryAmountIs(leverage) ==
  \A i \in OrderCalls :
    lastOp.calls[i].type \notin ProtectiveTypes =>
      lastOp.calls[i].amount = (lastOp.input.cost * leverage) \div
                               TickerPrice

(* C9 (as amended): a market entry made by buy or sell with a cost and no   *)
(* amount submits an order of amount (cost * leverage) / currentPrice,      *)
(* where leverage is the requested leverage (1 when none is requested)      *)
(* clamped to the range 1..20 and currentPrice the ticker price read for    *)
(* the call.                                                                *)
C9_CostEntryUsesClampedLeverage ==
  IsCostEntry =>
    LET requested == IF Truthy(lastOp.input.leverage) THEN lastOp.input.leverage ELSE 1
        clamped == IF requested < 1 THEN 1 ELSE IF requested > 20 THEN 20 ELSE requested
    IN  EntryAmountIs(clamped)

(* A cost-based market buy at a requested leverage of 25 whose order was    *)
(* accepted.                                                                *)
C9_Witness ==
  /\ IsCostEntry
  /\ lastOp.op = "buy"
  /\ lastOp.input.leverage = 25
  /\ lastOp.result.success
  /\ lastOp.result.amount = 40

(* C9 (as stated): the amount is (cost * leverage) / currentPrice with the  *)
(* leverage requested by the caller.                                        *)
C9_CostEntryUsesRequestedLeverage ==
  IsCostEntry =>
    EntryAmountIs(IF Truthy(lastOp.input.leverage) THEN lastOp.input.leverage ELSE 1)

ValidSignals == {"buy_to_enter", "sell_to_enter", "hold", "close"}

IsInvalid(decision) ==
  \/ decision.signal \notin ValidSignals
  \/ decision.coin \notin Symbols
  \/ decision.quantity = Undefined

(* C10: a decision of the oracle with a signal or coin outside the          *)
(* enumerations, or without a required field, causes no venue order and is  *)
(* reported as failed with an error when the loop hands it on.              *)
C10_InvalidDecisionPlacesNoOrder ==
  (lastOp.op = "run" /\ IsInvalid(lastOp.raw)) =>
    /\ OrderCalls = {}
    /\ lastOp.raw.signal # "hold" => (~lastOp.result.success /\ lastOp.result.error # "")

(* C11: in a cycle the decisions handed to executeDecision are the non-hold *)
(* decisions of the oracle's list consumed so far, each once and in list    *)
(* order, and every decision of the list is consumed whatever the results   *)
(* of the earlier ones were.                                                *)
C11_EveryNonHoldDecisionIsHandedOnce ==
  LET nonHold == SelectSeq(cycle.decisions, LAMBDA d : d.signal # "hold")
  IN  /\ Len(cycle.decisions) + cycle.todo = cycle.total
      /\ Len(cycle.handed) = Len(nonHold)
      /\ Len(cycle.executionResults) = Len(nonHold)
      /\ \A i \in DOMAIN nonHold :
           /\ cycle.handed[i].signal = nonHold[i].signal
           /\ cycle.handed[i].quantity = nonHold[i].quantity
           /\ nonHold[i].coin \in Symbols => cycle.handed[i].coin = nonHold[i].coin

(* A cycle of two decisions on different symbols in which the first         *)
(* execution failed and the second was still handed on and succeeded.       *)
C11_Witness ==
  /\ cycle.total = 2
  /\ Len(cycle.handed) = 2
  /\ cycle.handed[1].coin # cycle.handed[2].coin
  /\ ~cycle.executionResults[1].success
  /\ cycle.executionResults[2].success

EntriesOf(ledger, symbol) == {i \in DOMAIN ledger : ledger[i].symbol = symbol}

(* C12: the ledger holds at most one entry per symbol; after                *)
(* addOrUpdatePosition the entry of the symbol is exactly the position      *)
(* given and the other entries are as before; after removePosition the      *)
(* symbol has no entry, the other entries are as before, and removing it    *)
(* again changes nothing.                                                   *)
C12_OneEntryPerSymbol ==
  /\ \A s \in Symbols : Cardinality(EntriesOf(openPositions, s)) <= 1
  /\ lastOp.op = "addOrUpdatePosition" =>
       /\ \A i \in EntriesOf(openPositions, lastOp.input.symbol) :
            openPositions[i] = lastOp.input
       /\ EntriesOf(openPositions, lastOp.input.symbol) # {}
       /\ \A s \in Symbols \ {lastOp.input.symbol} :
            {openPositions[i] : i \in EntriesOf(openPositions, s)} =
            {lastOp.preLedger[i] : i \in EntriesOf(lastOp.preLedger, s)}
  /\ lastOp.op = "removePosition" =>
       /\ EntriesOf(openPositions, lastOp.input) = {}
       /\ \A s \in Symbols \ {lastOp.input} :
            {openPositions[i] : i \in EntriesOf(openPositions, s)} =
            {lastOp.preLedger[i] : i \in EntriesOf(lastOp.preLedger, s)}
       /\ removePosition(openPositions, lastOp.input) = openPositions

(* addOrUpdatePosition for a tracked symbol, with a position that differs   *)
(* from the tracked one, while the other symbol is tracked as well.         *)
C12_Witness ==
  /\ lastOp.op = "addOrUpdatePosition"
  /\ Len(lastOp.preLedger) = 2
  /\ \E i \in EntriesOf(lastOp.preLedger, lastOp.input.symbol) :
       lastOp.preLedger[i] # lastOp.input
  /\ Len(openPositions) = 2

EntrySet(ledger, symbol) == {ledger[i] : i \in EntriesOf(ledger, symbol)}

(* C13: a successful buy_to_enter or sell_to_enter leaves the ledger with   *)
(* an entry for its symbol that carries the decision's leverage and the     *)
(* sign of the entry, a successful close leaves it without an entry for     *)
(* its symbol, a failed decision or a hold leaves the ledger as it was,     *)
(* and the entries of the other symbols are never changed.                  *)
C13_LedgerChangesOnlyOnSuccess ==
  lastOp.op = "executeDecision" =>
    /\ \A s \in Symbols \ {lastOp.input.coin} :
         EntrySet(openPositions, s) = EntrySet(lastOp.preLedger, s)
    /\ (lastOp.result.success /\ lastOp.input.signal \in {"buy_to_enter", "sell_to_enter"}) =>
         /\ Cardinality(EntrySet(openPositions, lastOp.input.coin)) = 1
         /\ \A e \in EntrySet(openPositions, lastOp.input.coin) :
              /\ e.leverage = lastOp.input.leverage
              /\ e.stopLoss = lastOp.input.stop_loss
              /\ (lastOp.input.signal = "buy_to_enter") = (e.quantity > 0)
    /\ (lastOp.result.success /\ lastOp.input.signal = "close") =>
         EntrySet(openPositions, lastOp.input.coin) = {}
    /\ (~lastOp.result.success \/ lastOp.input.signal = "hold") =>
         openPositions = lastOp.preLedger

(* A successful entry on one symbol while the other symbol is tracked.      *)
C13_Witness ==
  /\ lastOp.op = "executeDecision"
  /\ lastOp.input.signal = "sell_to_enter"
  /\ lastOp.result.success
  /\ Len(lastOp.preLedger) = 1
  /\ Len(openPositions) = 2

(* C14: a hold decision, whatever the position of its symbol and with or    *)
(* without stop-loss/take-profit values, submits no order other than        *)
(* conditional stop-loss/take-profit orders and leaves the venue position   *)
(* of every symbol unchanged.                                              *)
C14_HoldLeavesPositionsUnchanged ==
  IsDecision({"hold"}) =>
    /\ pos = lastOp.prePos
    /\ \A i \in OrderCalls : lastOp.calls[i].type \in ProtectiveTypes

(* A hold with a stop-loss value on a symbol whose position is open.        *)
C14_Witness ==
  /\ IsDecision({"hold"})
  /\ lastOp.prePos[lastOp.input.coin] # 0
  /\ Truthy(lastOp.input.stop_loss)
  /\ lastOp.result.success

(* C15: executeDecision returns a result for every decision and every       *)
(* failure of a venue call: with success = false it carries a non-empty     *)
(* error and no execution record, with success = true an execution record   *)
(* and no error.                                                            *)
C15_ResultIsWellFormed ==
  lastOp.op = "executeDecision" =>
    /\ ~lastOp.result.success =>
         (lastOp.result.error # "" /\ lastOp.result.execution = <<>>)
    /\ lastOp.result.success =>
         (lastOp.result.error = "" /\ lastOp.result.execution # <<>>)

(* A close that failed because the venue rejected the closing order.        *)
C15_Witness ==
  /\ IsDecision({"close"})
  /\ ~lastOp.result.success
  /\ OrderCalls # {}
  /\ lastOp.result.error = "Close position failed: " \o VenueError

SetupCalls == {"setLeverage", "setMarginMode", "fapiPrivatePostLeverage"}

SetupRejected ==
  \E i \in DOMAIN lastOp.calls : lastOp.calls[i].call \in SetupCalls /\ ~lastOp.calls[i].ok

EntryOrders == {i \in OrderCalls : lastOp.calls[i].type \notin ProtectiveTypes}

(* C16: when the venue rejects the leverage change or the margin-mode       *)
(* change of an entry whose amount is given, exactly one entry order is     *)
(* still submitted, after the rejected call and with the amount given, and  *)
(* the call succeeds exactly if the venue accepts that order.               *)
C16_SetupRejectionDoesNotAbortEntry ==
  /\ (/\ IsCall({"buy", "sell"})
      /\ SetupRejected
      /\ Truthy(lastOp.input.amount)
      /\ lastOp.input.orderType = "limit" => Truthy(lastOp.input.price)) =>
       /\ Cardinality(EntryOrders) = 1
       /\ \A i \in EntryOrders :
            /\ lastOp.calls[i].amount = lastOp.input.amount
            /\ lastOp.result.success = lastOp.calls[i].ok
            /\ \A j \in DOMAIN lastOp.calls : lastOp.calls[j].call \in SetupCalls => j < i
  /\ (/\ IsDecision({"buy_to_enter"})
      /\ SetupRejected
      /\ Truthy(lastOp.input.quantity)) =>
       /\ Cardinality(EntryOrders) = 1
       /\ \A i \in EntryOrders :
            /\ lastOp.calls[i].amount = lastOp.input.quantity
            /\ lastOp.result.success = lastOp.calls[i].ok

(* A buy whose leverage change and margin-mode change were both rejected    *)
(* and whose entry order was accepted.                                      *)
C16_Witness ==
  /\ lastOp.op = "buy"
  /\ \E i \in DOMAIN lastOp.calls :
       lastOp.calls[i].call = "setLeverage" /\ ~lastOp.calls[i].ok
  /\ \E i \in DOMAIN lastOp.calls :
       lastOp.calls[i].call = "setMarginMode" /\ ~lastOp.calls[i].ok
  /\ lastOp.result.success

IsClamp == lastOp.op \in {"validateLeverage", "sell_validateLeverage"}

WholeLeverages == {n * Tenths : n \in 1 .. 20}

(* C17: validateLeverage maps every leverage to a whole number between 1    *)
(* and 20, and a value it returned is returned unchanged when passed in     *)
(* again.                                                                   *)
C17_ClampIsTotalAndIdempotent ==
  IsClamp =>
    /\ lastOp.result \in WholeLeverages
    /\ lastOp.input \in WholeLeverages => lastOp.result = lastOp.input
    /\ lastOp.input < 1 * Tenths => lastOp.result = 1 * Tenths
    /\ lastOp.input > 20 * Tenths => lastOp.result = 20 * Tenths

(* A fractional leverage inside the range was floored: 19.5 became 19.      *)
C17_Witness ==
  /\ lastOp.op = "validateLeverage"
  /\ lastOp.input = 195
  /\ lastOp.result = 190

SucceededSymbols == {fetches.symbols[i] : i \in {j \in DOMAIN fetches.fetched : fetches.fetched[j] = "ok"}}

(* C18: every requested fetch is in flight as soon as getAllMarketStates    *)
(* awaits; when it returns, every fetch has completed, nothing was thrown,  *)
(* and the keys of the map are exactly the symbols whose fetch succeeded,   *)
(* in whatever order the fetches completed.                                 *)
C18_MapHoldsExactlyTheSucceededSymbols ==
  /\ fetches.pc # "idle" => fetches.started = DOMAIN fetches.symbols
  /\ fetches.pc = "returned" =>
       /\ ~fetches.thrown
       /\ \A i \in DOMAIN fetches.symbols : fetches.fetched[i] # Pending
       /\ Len(fetches.order) = Len(fetches.symbols)
       /\ fetches.marketStates = SucceededSymbols

(* Three fetches completed last-to-first, the middle one failed, and the    *)
(* map returned holds the two other symbols.                                *)
C18_Witness ==
  /\ fetches.pc = "returned"
  /\ fetches.symbols = <<"BTC/USDT", "ETH/USDT", "SOL/USDT">>
  /\ fetches.order = <<3, 2, 1>>
  /\ fetches.fetched[2] = "failed"
  /\ fetches.marketStates = {"BTC/USDT", "SOL/USDT"}

RECURSIVE NonHold(_)
NonHold(decisions) ==
  IF decisions = <<>> THEN <<>>
  ELSE IF Head(decisions).signal = "hold" THEN NonHold(Tail(decisions))
  ELSE <<Head(decisions)>> \o NonHold(Tail(decisions))

CycleEnds == cycle.pc = "loop" /\ cycle'.pc = "idle"

(* C19: when a cycle ends, one chat record has been added, holding the      *)
(* reasoning, the justification and one SUCCESS or FAILED line per executed *)
(* decision, and exactly one trade record per decision of the cycle has     *)
(* been added, in the order of the decisions and linked to that chat        *)
(* record; earlier records are as they were.                                *)
C19_EveryDecisionIsPersisted ==
  [][CycleEnds =>
       LET chatId == Len(database.chat) + 1
           rows == Len(database.trading)
           executed == NonHold(cycle.decisions)
       IN  /\ Len(cycle.decisions) = cycle.total
           /\ Len(database'.chat) = chatId
           /\ SubSeq(database'.chat, 1, chatId - 1) = database.chat
           /\ database'.chat[chatId].reasoning \in {"reasoning", "<no reasoning>"}
           /\ database'.chat[chatId].chat.justification
                \in {"justification", "<no justification>"}
           /\ Len(database'.chat[chatId].chat.executions) = Len(executed)
           /\ \A k \in DOMAIN executed :
                /\ database'.chat[chatId].chat.executions[k].outcome \in {"SUCCESS", "FAILED"}
                /\ database'.chat[chatId].chat.executions[k].outcome = "FAILED"
                     => database'.chat[chatId].chat.executions[k].error # ""
           /\ Len(database'.trading) = rows + cycle.total
           /\ SubSeq(database'.trading, 1, rows) = database.trading
           /\ \A k \in 1 .. cycle.total :
                /\ database'.trading[rows + k].chatId = chatId
                /\ database'.trading[rows + k].data.quantity = cycle.decisions[k].quantity
     ]_vars

(* A finished cycle of two decisions, one of them failed: two trade records *)
(* linked to the one chat record, whose summary has a FAILED line.          *)
C19_Witness ==
  /\ cycle.pc = "idle"
  /\ Len(database.chat) = 1
  /\ Len(database.trading) = 2
  /\ \A k \in 1 .. 2 : database.trading[k].chatId = 1
  /\ \E k \in DOMAIN database.chat[1].chat.executions :
       database.chat[1].chat.executions[k].outcome = "FAILED"

RECURSIVE SumOfRiskPercentage(_)
SumOfRiskPercentage(ledger) ==
  IF ledger = <<>> THEN 0
  ELSE Head(ledger).riskPercentage + SumOfRiskPercentage(Tail(ledger))

(* C20: whatever entries the ledger holds, the riskScore of getRiskMetrics  *)
(* lies between 0 and 1 (0 and 1000 thousandths), the share added for total *)
(* risk lies between 0 and 0.1, and totalRisk is the sum of riskPercentage  *)
(* over the tracked positions.                                              *)
C20_RiskScoreWithinUnitInterval ==
  LET metrics == getRiskMetrics(openPositions)
  IN  /\ metrics.totalRisk = SumOfRiskPercentage(openPositions)
      /\ metrics.riskScore \in 0 .. 1000
      /\ Len(openPositions) <= 5 /\ metrics.totalRisk <= maxTotalRisk
           => metrics.riskScore \in 0 .. 100

(* C21: shouldHaltTrading answers true exactly when the daily P&L summed    *)
(* through updateDailyPnl is below -maxDailyLoss or the summed risk of the  *)
(* tracked positions is above maxTotalRisk.                                 *)
C21_HaltsOnDailyLossOrTotalRisk ==
  lastOp.op = "shouldHaltTrading" =>
    (lastOp.result <=> (\/ lastOp.dailyPnl < -1000000
                        \/ lastOp.totalRisk > 1000))

IsSnapshot == lastOp.op \in {"getAccountInformationAndPerformance", "unguardedSnapshot"}

(* C22: the total return and the Sharpe ratio of the account snapshot are   *)
(* finite numbers, and they are 0 whenever their denominator is zero (no    *)
(* positions, zero total unrealized PnL, zero spread of returns, zero       *)
(* initial capital).                                                        *)
C22_ReturnAndSharpeAreFinite ==
  /\ IsSnapshot =>
       /\ IsFinite(lastOp.currentTotalReturn)
       /\ IsFinite(lastOp.sharpeRatio)
       /\ lastOp.initialCapital = 0 => lastOp.currentTotalReturn = 0 /\ lastOp.sharpeRatio = 0
       /\ SumOf(lastOp.unrealizedPnl) = 0 => lastOp.sharpeRatio = 0
  /\ lastOp.op = "calculateSharpeRatio" =>
       /\ IsFinite(lastOp.sharpeRatio)
       /\ (\A i, j \in DOMAIN lastOp.returns : lastOp.returns[i] = lastOp.returns[j])
            => lastOp.sharpeRatio = 0

(* C23: getCurrentMarketState throws when a candle request fails and when   *)
(* the venue returns fewer candles than the longest indicator window needs  *)
(* (20 three-minute candles, 50 four-hour candles); a state it returns has  *)
(* no indicator that is 0 for want of candles.                              *)
C23_ShortHistoryIsAnError ==
  lastOp.op = "getCurrentMarketState" =>
    /\ lastOp.failed => lastOp.result.thrown
    /\ (~lastOp.failed /\ (lastOp.candles3m < 20 \/ lastOp.candles4h < 50))
         => lastOp.result.thrown
    /\ ~lastOp.result.thrown =>
         /\ lastOp.result.state[1].current_ema20 # 0
         /\ lastOp.result.state[1].ema_20 # 0
         /\ lastOp.result.state[1].ema_50 # 0

IsEnter ==
  /\ lastOp.op \in {"executeDecision", "run"}
  /\ lastOp.input.signal \in {"buy_to_enter", "sell_to_enter"}

(* C24: one enter decision, executed directly or by the loop of run(),      *)
(* submits at most one entry order; when the execution fails, the one order *)
(* that was submitted is the rejected one and none follows it.              *)
C24_AtMostOneEntryOrderPerDecision ==
  IsEnter =>
    /\ Cardinality(EntryOrders) <= 1
    /\ \A i \in EntryOrders :
         /\ lastOp.calls[i].ok = lastOp.result.success
         /\ \A j \in OrderCalls : j > i => lastOp.calls[j].type \in ProtectiveTypes

(* The loop handed over a buy_to_enter whose entry order the venue          *)
(* rejected: the execution failed after exactly one order.                  *)
C24_Witness ==
  /\ lastOp.op = "run"
  /\ lastOp.input.signal = "buy_to_enter"
  /\ ~lastOp.result.success
  /\ Cardinality(EntryOrders) = 1
  /\ \A i \in EntryOrders : ~lastOp.calls[i].ok

InLoop == cycle.pc = "loop" /\ cycle'.pc = "loop"

(* C25: the available capital of a cycle is fixed when the loop starts,     *)
(* before any decision is executed; it does not change while the loop runs, *)
(* and every execution of the cycle is given that value.                    *)
C25_CapitalIsOneSnapshotPerCycle ==
  [][/\ (cycle.pc = "idle" /\ cycle'.pc = "loop") => cycle'.handed = <<>> /\ lastOp' = lastOp
     /\ InLoop =>
          /\ cycle'.availableCapital = cycle.availableCapital
          /\ Len(cycle'.handed) > Len(cycle.handed) =>
               /\ lastOp'.op = "run"
               /\ lastOp'.capital = cycle.availableCapital
    ]_vars

(* The second execution of a cycle, after a first one that opened a         *)
(* position, was given the capital read before the loop.                    *)
C25_Witness ==
  /\ cycle.pc = "loop"
  /\ Len(cycle.handed) = 2
  /\ cycle.executionResults[1].success
  /\ lastOp.op = "run"
  /\ lastOp.capital = 90000
  /\ cycle.availableCapital = 90000

(* C26: an enter decision with leverage above 1, long or short, that        *)
(* submits an entry order has asked the venue for that leverage on that     *)
(* symbol before the order, and the leverage a successful entry records in  *)
(* the ledger is the one asked for.                                         *)
C26_LeverageRequestedBeforeEntry ==
  (/\ IsDecision({"buy_to_enter", "sell_to_enter"})
   /\ lastOp.input.leverage > 1) =>
    \A i \in EntryOrders :
      /\ \E j \in DOMAIN lastOp.calls :
           /\ j < i
           /\ lastOp.calls[j].call \in SetupCalls \ {"setMarginMode"}
           /\ lastOp.calls[j].symbol = lastOp.calls[i].symbol
           /\ lastOp.calls[j].value = lastOp.input.leverage
      /\ lastOp.result.success =>
           \A k \in DOMAIN openPositions :
             openPositions[k].symbol = lastOp.input.coin
               => openPositions[k].leverage = lastOp.input.leverage

LedgerMatchesVenue(p, ledger) ==
  \A s \in Symbols :
    IF p[s] = 0 THEN ~Tracked(ledger, s)
    ELSE \E i \in DOMAIN ledger :
           /\ ledger[i].symbol = s
           /\ ledger[i].quantity = p[s]
           /\ \A j \in DOMAIN ledger : ledger[j].symbol = s => j = i

SuccessfulTrade ==
  /\ lastOp' # lastOp
  /\ lastOp'.op = "executeDecision"
  /\ lastOp'.input.signal \in {"buy_to_enter", "sell_to_enter", "close"}
  /\ lastOp'.result.success
  /\ \A i \in DOMAIN lastOp'.calls : lastOp'.calls[i].ok

(* C27: a successful enter or close decision, on a venue that accepts and   *)
(* fills every order, takes a ledger that agrees with the venue (the signed *)
(* quantity of each symbol is the venue's net position, and no entry for a  *)
(* flat symbol) to a ledger that agrees with the venue; so the two agree    *)
(* after any sequence of such decisions, since they agree at the start.     *)
C27_LedgerQuantityIsVenuePosition ==
  [][(LedgerMatchesVenue(pos, openPositions) /\ SuccessfulTrade)
       => LedgerMatchesVenue(pos', openPositions')]_vars

BothClosed(symbol) ==
  \A c \in Cycles :
    /\ closing[c].pc = "closed"
    /\ closing[c].symbol = symbol
    /\ closing[c].contracts # 0

(* C28: when two closes of one symbol have both read an open position and   *)
(* both have had their order filled, the venue position of the symbol is    *)
(* zero.                                                                    *)
C28_OverlappingClosesEndFlat ==
  \A symbol \in Symbols : BothClosed(symbol) => pos[symbol] = 0

(* C29: the trade record whose stop-loss, take-profit, confidence and risk  *)
(* the snapshot attaches to an open position is the record of an enter      *)
(* decision that was executed successfully: its price is the executed       *)
(* price, where a failed execution is recorded with price 0.                *)
C29_EnrichmentUsesSuccessfulEntries ==
  lastOp.op = "getAccountInformationAndPerformance" =>
    \A position \in lastOp.positions :
      position.trade # 0 =>
        /\ database.trading[position.trade].data.symbol = position.symbol
        /\ database.trading[position.trade].data.pricing # 0

InvalidInput ==
  \/ (/\ ~Truthy(lastOp.input.amount)
      /\ ~Truthy(lastOp.input.cost)
      /\ ~(lastOp.op = "sell" /\ lastOp.input.closePosition))
  \/ (lastOp.input.orderType = "limit" /\ ~Truthy(lastOp.input.price))

(* C30: a buy or sell call with invalid input (neither amount nor cost, or  *)
(* a limit order without a price) fails without a leverage change, a        *)
(* margin-mode change or an order having been sent to the venue.            *)
C30_InvalidInputChangesNothing ==
  (IsCall({"buy", "sell"}) /\ InvalidInput) =>
    /\ ~lastOp.result.success
    /\ \A i \in DOMAIN lastOp.calls :
         lastOp.calls[i].call \notin {"setLeverage", "setMarginMode", "createOrder"}

====
